---- MODULE Spec2Model ----
(***************************************************************************)
(* The build-history continuity pass of ImageDiff (main.py,                *)
(* target_data_api) together with the comparators it calls (main.py        *)
(* get_image_diff / get_movie_diff_for_frames / get_movie_diff_cached and   *)
(* imagediff.py image_diff / movie_diff), over a small screenshots tree.   *)
(*                                                                         *)
(* A screenshots tree is a function from (build, movie, frame) to the kind *)
(* of file found there:                                                    *)
(*   "none"     no file                                                    *)
(*   "a", "b"   <movie>-<frame>.png, a readable image with pixels a or b   *)
(*   "corrupt"  <movie>-<frame>.png that PIL cannot open or read (IOError) *)
(*   "odd"      <movie>-<frame>.png, readable, but of another image mode,  *)
(*              so that ImageChops.difference against an a/b image raises  *)
(*              ValueError                                                 *)
(*   "jpg"      <movie>-<frame>.jpg, a readable image with pixels a        *)
(* A build is identified by its rank in the sort order of the build names, *)
(* 1 being the oldest.                                                     *)
(* Frame tokens are canonical decimal numbers, one file per frame number,  *)
(* so a frame list is represented by the set of its frame numbers and its  *)
(* length by the cardinality of that set.  The order in which Python       *)
(* iterates a set of frame tokens is arbitrary and is chosen               *)
(* nondeterministically wherever the pixel-diff calls depend on it.        *)
(***************************************************************************)
EXTENDS Integers, Sequences, FiniteSets, TLC

\* A target has at most MaxBuilds builds and frame numbers 1..MaxFrame; its
\* tree holds at most MaxFiles files, or at most DenseFiles files when it has
\* no more than DenseBuilds builds.  A target of no more than WideBuilds
\* builds has frame numbers 1..WideFrame and at most WideFiles files.
MaxBuilds == 4
MaxFrame == 2
MaxFiles == 3
DenseBuilds == 3
DenseFiles == 4
WideBuilds == 2
WideFrame == 3
WideFiles == 5

None == 0
Target == "T"
Movies == {"intro"}
Frames == 1..(IF WideFrame > MaxFrame THEN WideFrame ELSE MaxFrame)
BuildIds == 1..MaxBuilds
Slots == BuildIds \X Movies \X Frames
SpecialKinds == {"b", "corrupt", "odd", "jpg"}
PngKinds == {"a", "b", "corrupt", "odd"}

VARIABLES files, dirs, pc, builds, all_movies, build_movie_frames,
          first_build_for_movie, movie_reference_builds, movies, mi, i,
          continuous_bars, image_diff_cache, movie_diff_cache, calls,
          movie_calls

vars == <<files, dirs, pc, builds, all_movies, build_movie_frames,
          first_build_for_movie, movie_reference_builds, movies, mi, i,
          continuous_bars, image_diff_cache, movie_diff_cache, calls,
          movie_calls>>

inputs == <<files, dirs>>
collected == <<builds, all_movies, build_movie_frames, first_build_for_movie,
               movie_reference_builds, movies>>

----------------------------------------------------------------------------
(* Generic helpers *)

Max(S) == CHOOSE x \in S : \A y \in S : y <= x
Min(S) == CHOOSE x \in S : \A y \in S : x <= y

RECURSIVE SortedSeq(_, _)
SortedSeq(S, reverse) ==
  IF S = {} THEN <<>>
  ELSE LET x == IF reverse THEN Max(S) ELSE Min(S)
       IN <<x>> \o SortedSeq(S \ {x}, reverse)

Orders(S) ==
  {s \in [1..Cardinality(S) -> S] : \A p, q \in 1..Cardinality(S) : s[p] = s[q] => p = q}

Put(f, k, v) == [x \in DOMAIN f \cup {k} |-> IF x = k THEN v ELSE f[x]]

----------------------------------------------------------------------------
(* The screenshots tree *)

FramesOnDisk(fs, build, movie) == {f \in Frames : fs[<<build, movie, f>>] # "none"}

PngExists(fs, build, movie, frame) ==
  frame \in Frames /\ fs[<<build, movie, frame>>] \in PngKinds

get_sorted_builds(d, reverse) == SortedSeq(d, reverse)

collect_movie_frames(fs, bs) ==
  LET ms(b) == {m \in Movies : FramesOnDisk(fs, b, m) # {}}
      blds == {bs[k] : k \in 1..Len(bs)}
  IN [all_movies |-> UNION {ms(b) : b \in blds},
      build_movie_frames |->
        [b \in blds |-> [m \in ms(b) |-> FramesOnDisk(fs, b, m)]]]

HasMovie(bmf, build, movie) == build \in DOMAIN bmf /\ movie \in DOMAIN bmf[build]

FramesOf(bmf, build, movie) ==
  IF HasMovie(bmf, build, movie) THEN bmf[build][movie] ELSE {}

RECURSIVE FirstBuildFrom(_, _, _, _)
FirstBuildFrom(movie, bseq, bmf, k) ==
  IF k > Len(bseq) THEN None
  ELSE IF HasMovie(bmf, bseq[k], movie) THEN bseq[k]
  ELSE FirstBuildFrom(movie, bseq, bmf, k + 1)

RECURSIVE LastBuildFrom(_, _, _, _, _)
LastBuildFrom(movie, bseq, bmf, k, found) ==
  IF k > Len(bseq) THEN found
  ELSE LastBuildFrom(movie, bseq, bmf, k + 1,
                     IF HasMovie(bmf, bseq[k], movie) THEN bseq[k] ELSE found)

\* mutant: the inner loop without its break keeps the last build with the movie
find_first_build_no_break(am, builds_ascending, bmf) ==
  LET found == {m \in am : LastBuildFrom(m, builds_ascending, bmf, 1, None) # None}
  IN [m \in found |-> LastBuildFrom(m, builds_ascending, bmf, 1, None)]

find_first_build_for_movies(am, builds_ascending, bmf) ==
  LET found == {m \in am : FirstBuildFrom(m, builds_ascending, bmf, 1) # None}
  IN [m \in found |-> FirstBuildFrom(m, builds_ascending, bmf, 1)]

RECURSIVE LastWithMovie(_, _, _, _, _)
LastWithMovie(movie, bs, bmf, j, found) ==
  IF j > Len(bs) THEN found
  ELSE LastWithMovie(movie, bs, bmf, j + 1,
                     IF HasMovie(bmf, bs[j], movie) THEN bs[j] ELSE found)

\* mutant: the scan without its break ends on the oldest build with the movie
ReferenceForAbsent_no_break(movie, bs, bmf, j) == LastWithMovie(movie, bs, bmf, j, None)

RECURSIVE ReferenceForAbsent(_, _, _, _)
ReferenceForAbsent(movie, bs, bmf, j) ==
  IF j > Len(bs) THEN None
  ELSE IF HasMovie(bmf, bs[j], movie) THEN bs[j]
  ELSE ReferenceForAbsent(movie, bs, bmf, j + 1)

RECURSIVE ReferenceForPresent_nearest(_, _, _, _, _)
\* mutant: the break leaves the scan at the nearest build with the movie,
\* whether or not it shares a frame
ReferenceForPresent_nearest(movie, bs, bmf, current_frames, j) ==
  IF j > Len(bs) THEN [build |-> None, frames |-> current_frames]
  ELSE IF HasMovie(bmf, bs[j], movie)
       THEN (IF (current_frames \cap FramesOf(bmf, bs[j], movie)) # {}
             THEN [build |-> bs[j],
                   frames |-> current_frames \cap FramesOf(bmf, bs[j], movie)]
             ELSE [build |-> None, frames |-> current_frames])
       ELSE ReferenceForPresent_nearest(movie, bs, bmf, current_frames, j + 1)

RECURSIVE ReferenceForPresent(_, _, _, _, _)
ReferenceForPresent(movie, bs, bmf, current_frames, j) ==
  IF j > Len(bs) THEN [build |-> None, frames |-> current_frames]
  ELSE IF HasMovie(bmf, bs[j], movie)
          /\ (current_frames \cap FramesOf(bmf, bs[j], movie)) # {}
       THEN [build |-> bs[j], frames |-> current_frames \cap FramesOf(bmf, bs[j], movie)]
       ELSE ReferenceForPresent(movie, bs, bmf, current_frames, j + 1)

\* mutant: the scans start at the current build, range(i, len(builds))
reference_data_for_from_current(movie, bs, bmf, k) ==
  IF ~HasMovie(bmf, bs[k], movie)
  THEN [build |-> ReferenceForAbsent(movie, bs, bmf, k), frames |-> {}]
  ELSE ReferenceForPresent(movie, bs, bmf, FramesOf(bmf, bs[k], movie), k)

reference_data_for(movie, bs, bmf, k) ==
  IF ~HasMovie(bmf, bs[k], movie)
  THEN [build |-> ReferenceForAbsent(movie, bs, bmf, k + 1), frames |-> {}]
  ELSE ReferenceForPresent(movie, bs, bmf, FramesOf(bmf, bs[k], movie), k + 1)

calculate_movie_reference_builds(am, bs, bmf) ==
  [m \in am |-> [b \in {bs[k] : k \in 1..Len(bs)} |->
      reference_data_for(m, bs, bmf, CHOOSE k \in 1..Len(bs) : bs[k] = b)]]

----------------------------------------------------------------------------
(* imagediff.py *)

Mode(kind) == IF kind = "odd" THEN "L" ELSE "RGB"
Pixels(kind) == IF kind = "b" THEN "b" ELSE "a"

\* Outcome of image_diff on two existing files: "diff" / "same" are the dicts
\* with has_diff True / False, "empty" is the {} returned from the IOError
\* handler, "raise" is any other exception leaving the function.
image_diff(src_kind, cmp_kind) ==
  IF src_kind = "corrupt" \/ cmp_kind = "corrupt" THEN "empty"
  ELSE IF Mode(src_kind) # Mode(cmp_kind) THEN "raise"
  ELSE IF Pixels(src_kind) # Pixels(cmp_kind) THEN "diff"
  ELSE "same"

\* dict.get('has_diff', False) on a result dict
has_diff_of(result) == result \in {"diff", "fallback"}

\* mutant: sorted(list(src keys) + list(cmp keys)) without the set()
all_frame_numbers_with_duplicates(src_keys, cmp_keys) ==
  LET both == src_keys \cap cmp_keys
      twice(q) == IF q[Len(q)] \in both THEN <<q[Len(q)], q[Len(q)]>> ELSE <<q[Len(q)]>>
      F[k \in 0..Cardinality(src_keys \cup cmp_keys)] ==
        IF k = 0 THEN <<>>
        ELSE F[k - 1] \o twice(SubSeq(SortedSeq(src_keys \cup cmp_keys, FALSE), 1, k))
  IN F[Cardinality(src_keys \cup cmp_keys)]

all_frame_numbers(src_keys, cmp_keys) == SortedSeq(src_keys \cup cmp_keys, FALSE)

\* mutant: the loop of movie_diff goes on after a frame that differs
RECURSIVE movie_diff_loop_no_return(_, _, _, _, _, _, _)
movie_diff_loop_no_return(fs, src_build, cmp_build, movie, nums, k, log) ==
  IF k > Len(nums) THEN [result |-> FALSE, calls |-> log]
  ELSE LET n == nums[k]
           log2 == Append(log, [src |-> src_build, cmp |-> cmp_build,
                                movie |-> movie, frame |-> n, by |-> "movie_diff"])
           rest == movie_diff_loop_no_return(fs, src_build, cmp_build, movie,
                                             nums, k + 1, log2)
       IN [result |-> rest.result
                        \/ image_diff(fs[<<src_build, movie, n>>],
                                      fs[<<cmp_build, movie, n>>]) \in {"diff", "raise"},
           calls |-> rest.calls]

RECURSIVE movie_diff_loop(_, _, _, _, _, _, _)
movie_diff_loop(fs, src_build, cmp_build, movie, nums, k, log) ==
  IF k > Len(nums) THEN [result |-> FALSE, calls |-> log]
  ELSE LET n == nums[k]
           s == fs[<<src_build, movie, n>>]
           c == fs[<<cmp_build, movie, n>>]
       IN IF s # "none" /\ c # "none"
          THEN LET log2 == Append(log, [src |-> src_build, cmp |-> cmp_build,
                                        movie |-> movie, frame |-> n,
                                        by |-> "movie_diff"])
               IN IF image_diff(s, c) \in {"diff", "raise"}
                  THEN [result |-> TRUE, calls |-> log2]
                  ELSE movie_diff_loop(fs, src_build, cmp_build, movie, nums, k + 1, log2)
          ELSE [result |-> TRUE, calls |-> log]

\* fs and d are the screenshots tree and the build directories the function
\* reads; the result comes with the image_diff invocations it made.
movie_diff(fs, d, src_build, cmp_build, target, movie) ==
  LET src_frames == FramesOnDisk(fs, src_build, movie)
      cmp_frames == FramesOnDisk(fs, cmp_build, movie)
  IN IF src_build \notin d \/ cmp_build \notin d
     THEN [result |-> FALSE, calls |-> <<>>]
     ELSE IF Cardinality(src_frames) # Cardinality(cmp_frames)
     THEN [result |-> TRUE, calls |-> <<>>]
     ELSE IF src_frames # cmp_frames
     THEN [result |-> TRUE, calls |-> <<>>]
     ELSE movie_diff_loop(fs, src_build, cmp_build, movie,
                          all_frame_numbers(src_frames, cmp_frames), 1, <<>>)

----------------------------------------------------------------------------
(* main.py: the comparators closed over the two caches *)

cache_key(current_build, prev_build, movie, frame) ==
  <<current_build, prev_build, movie, frame>>

\* st = [cache |-> image_diff_cache, calls |-> the image_diff invocations so far]
get_image_diff(st, fs, current_build, prev_build, movie, frame) ==
  LET key == cache_key(current_build, prev_build, movie, frame)
  IN IF key \in DOMAIN st.cache THEN st
     ELSE IF PngExists(fs, current_build, movie, frame)
             /\ PngExists(fs, prev_build, movie, frame)
     THEN LET r == image_diff(fs[<<current_build, movie, frame>>],
                              fs[<<prev_build, movie, frame>>])
          IN [cache |-> Put(st.cache, key, IF r = "raise" THEN "fallback" ELSE r),
              calls |-> Append(st.calls, [src |-> current_build, cmp |-> prev_build,
                                          movie |-> movie, frame |-> frame,
                                          by |-> "get_image_diff"])]
     ELSE [cache |-> Put(st.cache, key, "fallback"), calls |-> st.calls]

\* mutant: the frame loop without its break
RECURSIVE frame_loop_no_break(_, _, _, _, _, _, _)
frame_loop_no_break(st, fs, current_build, reference_build, movie, order, k) ==
  IF k > Len(order) THEN [st |-> st, has_any_diff |-> FALSE]
  ELSE LET st2 == get_image_diff(st, fs, current_build, reference_build, movie, order[k])
           rest == frame_loop_no_break(st2, fs, current_build, reference_build,
                                       movie, order, k + 1)
       IN [st |-> rest.st,
           has_any_diff |-> rest.has_any_diff
              \/ has_diff_of(st2.cache[cache_key(current_build, reference_build,
                                                 movie, order[k])])]

\* for frame in ...: diff_result = get_image_diff(...); if has_diff: break
RECURSIVE frame_loop(_, _, _, _, _, _, _)
frame_loop(st, fs, current_build, reference_build, movie, order, k) ==
  IF k > Len(order) THEN [st |-> st, has_any_diff |-> FALSE]
  ELSE LET st2 == get_image_diff(st, fs, current_build, reference_build, movie, order[k])
       IN IF has_diff_of(st2.cache[cache_key(current_build, reference_build, movie, order[k])])
          THEN [st |-> st2, has_any_diff |-> TRUE]
          ELSE frame_loop(st2, fs, current_build, reference_build, movie, order, k + 1)

get_movie_diff_for_frames(st, fs, current_build, reference_build, target, movie, order) ==
  IF Len(order) = 0 THEN [st |-> st, has_any_diff |-> FALSE]
  ELSE frame_loop(st, fs, current_build, reference_build, movie, order, 1)

\* mst = [cache |-> movie_diff_cache, calls |-> image_diff invocations,
\*        movie_calls |-> movie_diff invocations]
get_movie_diff_cached(mst, fs, d, current_build, prev_build, target, movie) ==
  LET key == <<current_build, prev_build, target, movie>>
  IN IF key \in DOMAIN mst.cache THEN mst
     ELSE LET r == movie_diff(fs, d, current_build, prev_build, target, movie)
          IN [cache |-> Put(mst.cache, key, r.result),
              calls |-> mst.calls \o r.calls,
              movie_calls |-> Append(mst.movie_calls, key)]

----------------------------------------------------------------------------
(* main.py: one iteration of the continuity loop of target_data_api *)

prev_build(bs, k) == IF k < Len(bs) THEN bs[k + 1] ELSE None

has_in_current(bmf, bs, k, movie) == HasMovie(bmf, bs[k], movie)

prev_frames(bmf, bs, k, movie) ==
  IF prev_build(bs, k) # None THEN FramesOf(bmf, prev_build(bs, k), movie) ELSE {}

\* mutant: len(prev_frames) >= 0
has_in_prev_or_empty(bmf, bs, k, movie) ==
  IF prev_build(bs, k) # None THEN Cardinality(prev_frames(bmf, bs, k, movie)) >= 0 ELSE FALSE

has_in_prev(bmf, bs, k, movie) ==
  IF prev_build(bs, k) # None THEN Cardinality(prev_frames(bmf, bs, k, movie)) > 0 ELSE FALSE

is_first_build(fbm, bs, k, movie) ==
  bs[k] = (IF movie \in DOMAIN fbm THEN fbm[movie] ELSE None)

reference_data(mrb, movie, current_build) ==
  IF movie \in DOMAIN mrb /\ current_build \in DOMAIN mrb[movie]
  THEN mrb[movie][current_build]
  ELSE [build |-> None, frames |-> {}]

skip_condition(bmf, bs, k, movie) ==
  ~has_in_current(bmf, bs, k, movie) /\ prev_build(bs, k) # None

compare_condition(bmf, bs, k, movie) ==
  has_in_current(bmf, bs, k, movie) /\ prev_build(bs, k) # None

\* mutant: 'unknown' only for a movie that is present in the oldest build
unknown_condition_present_only(bmf, bs, k, movie) ==
  prev_build(bs, k) = None /\ has_in_current(bmf, bs, k, movie)

unknown_condition(bmf, bs, k, movie) == prev_build(bs, k) = None

\* mutant: len(current_frames) != len(prev_frames)
is_partial_comparison_any_count(current_frames, older_frames) ==
  Cardinality(current_frames) # Cardinality(older_frames)

is_partial_comparison(current_frames, older_frames) ==
  Cardinality(current_frames) < Cardinality(older_frames)

\* mutant: the partial loop walks the older build's frames
partial_frames_of_older(current_frames, older_frames) == older_frames

partial_frames(current_frames, older_frames) == current_frames \cap older_frames

\* The if / elif chain of lines 258-333; "none" when no branch is taken.
Branch(fbm, mrb, bmf, bs, k, movie) ==
  IF is_first_build(fbm, bs, k, movie) THEN "first"
  ELSE IF skip_condition(bmf, bs, k, movie)
  THEN (IF reference_data(mrb, movie, bs[k]).build # None THEN "skipped" ELSE "missing")
  ELSE IF compare_condition(bmf, bs, k, movie)
  THEN (IF has_in_prev(bmf, bs, k, movie)
        THEN (IF is_partial_comparison(FramesOf(bmf, bs[k], movie),
                                       prev_frames(bmf, bs, k, movie))
              THEN "partial" ELSE "diff")
        ELSE "readded")
  ELSE IF unknown_condition(bmf, bs, k, movie) THEN "unknown"
  ELSE "none"

\* An entry dict; keys is the set of keys the dict has, the other fields
\* hold a default.
Entry(build, type) ==
  [build |-> build, type |-> type, keys |-> {"build", "type"},
   reference_build |-> None, compare_with |-> None, has_diff |-> FALSE,
   is_skipped |-> FALSE, is_partial |-> FALSE, common_frames |-> {},
   no_reference |-> FALSE]

first_entry(build) == Entry(build, "first")

skipped_entry(build, reference_build) ==
  [Entry(build, "diff") EXCEPT
     !.keys = @ \cup {"reference_build", "has_diff", "is_skipped", "compare_with"},
     !.reference_build = reference_build, !.has_diff = FALSE,
     !.is_skipped = TRUE, !.compare_with = reference_build]

missing_entry(build) == Entry(build, "missing")

partial_entry(build, has_any_diff, prev) ==
  [Entry(build, "diff") EXCEPT
     !.keys = @ \cup {"has_diff", "compare_with", "is_partial"},
     !.has_diff = has_any_diff, !.compare_with = prev, !.is_partial = TRUE]

diff_entry(build, has_diff, prev) ==
  [Entry(build, "diff") EXCEPT
     !.keys = @ \cup {"has_diff", "compare_with"},
     !.has_diff = has_diff, !.compare_with = prev]

readded_entry(build, reference_build, comparable_frames, has_diff) ==
  [Entry(build, "readded") EXCEPT
     !.keys = @ \cup {"compare_with", "common_frames", "has_diff", "no_reference"},
     !.compare_with = reference_build, !.common_frames = comparable_frames,
     !.has_diff = has_diff, !.no_reference = (reference_build = None)]

unknown_entry(build) == Entry(build, "unknown")

----------------------------------------------------------------------------
(* The state machine *)

\* The screenshots tree with the files of the set present, all of kind "a"
\* except the file special, which is of the given kind.
Tree(present, special, kind) ==
  [s \in Slots |-> IF s \in present
                   THEN (IF s = special THEN kind ELSE "a")
                   ELSE "none"]

FileBudget(n) ==
  IF n <= WideBuilds THEN WideFiles
  ELSE IF n <= DenseBuilds THEN DenseFiles ELSE MaxFiles

FrameBudget(n) == IF n <= WideBuilds THEN WideFrame ELSE MaxFrame

\* The builds are 1..n; the tree holds at most FileBudget(n) files with the
\* frame numbers 1..FrameBudget(n), one of which at most is not of kind "a".
Init ==
  /\ \E n \in 0..MaxBuilds :
       /\ dirs = 1..n
       /\ \E present \in SUBSET ((1..n) \X Movies \X (1..FrameBudget(n))) :
            /\ Cardinality(present) <= FileBudget(n)
            /\ \/ files = Tree(present, <<>>, "a")
               \/ \E special \in present : \E kind \in SpecialKinds :
                    files = Tree(present, special, kind)
  /\ pc = "start"
  /\ builds = <<>>
  /\ all_movies = {}
  /\ build_movie_frames = <<>>
  /\ first_build_for_movie = <<>>
  /\ movie_reference_builds = <<>>
  /\ movies = <<>>
  /\ mi = 1
  /\ i = 1
  /\ continuous_bars = <<>>
  /\ image_diff_cache = <<>>
  /\ movie_diff_cache = <<>>
  /\ calls = <<>>
  /\ movie_calls = <<>>

\* Lines 143-238: everything before the continuity loop.
Collect ==
  /\ pc = "start"
  /\ builds' = get_sorted_builds(dirs, TRUE)
  /\ all_movies' = collect_movie_frames(files, builds').all_movies
  /\ build_movie_frames' = collect_movie_frames(files, builds').build_movie_frames
  /\ first_build_for_movie' =
       find_first_build_for_movies(all_movies', get_sorted_builds(dirs, FALSE),
                                   build_movie_frames')
  /\ movie_reference_builds' =
       calculate_movie_reference_builds(all_movies', builds', build_movie_frames')
  \* sorted(list(all_movies)): one of the orders of the movies
  /\ movies' \in Orders(all_movies')
  /\ continuous_bars' = [m \in all_movies' |-> <<>>]
  /\ pc' = IF all_movies' = {} \/ Len(builds') = 0 THEN "done" ELSE "bars"
  /\ UNCHANGED <<inputs, mi, i, image_diff_cache, movie_diff_cache, calls, movie_calls>>

movie == movies[mi]
current_build == builds[i]
current_frames == FramesOf(build_movie_frames, current_build, movie)
branch ==
  Branch(first_build_for_movie, movie_reference_builds, build_movie_frames, builds, i, movie)

\* End of one iteration of the inner loop: next build, next movie, or return.
Advance ==
  /\ i' = IF i < Len(builds) THEN i + 1 ELSE 1
  /\ mi' = IF i < Len(builds) THEN mi ELSE mi + 1
  /\ pc' = IF i < Len(builds) \/ mi < Len(movies) THEN "bars" ELSE "done"

Emit(entries) ==
  continuous_bars' = [continuous_bars EXCEPT ![movie] = @ \o entries]

EmitFirst ==
  /\ pc = "bars" /\ branch = "first"
  /\ Emit(<<first_entry(current_build)>>)
  /\ Advance
  /\ UNCHANGED <<inputs, collected, image_diff_cache, movie_diff_cache, calls, movie_calls>>

EmitSkipped ==
  /\ pc = "bars" /\ branch = "skipped"
  /\ Emit(<<skipped_entry(current_build,
                          reference_data(movie_reference_builds, movie, current_build).build)>>)
  /\ Advance
  /\ UNCHANGED <<inputs, collected, image_diff_cache, movie_diff_cache, calls, movie_calls>>

EmitMissing ==
  /\ pc = "bars" /\ branch = "missing"
  /\ Emit(<<missing_entry(current_build)>>)
  /\ Advance
  /\ UNCHANGED <<inputs, collected, image_diff_cache, movie_diff_cache, calls, movie_calls>>

EmitPartial ==
  /\ pc = "bars" /\ branch = "partial"
  /\ \E order \in Orders(partial_frames(current_frames,
                                        prev_frames(build_movie_frames, builds, i, movie))) :
       LET r == frame_loop([cache |-> image_diff_cache, calls |-> calls], files,
                           current_build, prev_build(builds, i), movie, order, 1)
       IN /\ image_diff_cache' = r.st.cache
          /\ calls' = r.st.calls
          /\ Emit(<<partial_entry(current_build, r.has_any_diff, prev_build(builds, i))>>)
  /\ Advance
  /\ UNCHANGED <<inputs, collected, movie_diff_cache, movie_calls>>

EmitDiff ==
  /\ pc = "bars" /\ branch = "diff"
  /\ LET key == <<current_build, prev_build(builds, i), Target, movie>>
         r == get_movie_diff_cached([cache |-> movie_diff_cache, calls |-> calls,
                                     movie_calls |-> movie_calls], files, dirs,
                                    current_build, prev_build(builds, i), Target, movie)
     IN /\ movie_diff_cache' = r.cache
        /\ calls' = r.calls
        /\ movie_calls' = r.movie_calls
        /\ Emit(<<diff_entry(current_build, r.cache[key], prev_build(builds, i))>>)
  /\ Advance
  /\ UNCHANGED <<inputs, collected, image_diff_cache>>

EmitReadded ==
  /\ pc = "bars" /\ branch = "readded"
  /\ LET rd == reference_data(movie_reference_builds, movie, current_build)
     IN \E order \in Orders(rd.frames) :
          LET r == IF rd.build # None /\ Len(order) > 0
                   THEN get_movie_diff_for_frames(
                          [cache |-> image_diff_cache, calls |-> calls], files,
                          current_build, rd.build, Target, movie, order)
                   ELSE [st |-> [cache |-> image_diff_cache, calls |-> calls],
                         has_any_diff |-> FALSE]
          IN /\ image_diff_cache' = r.st.cache
             /\ calls' = r.st.calls
             /\ Emit(<<readded_entry(current_build, rd.build, rd.frames, r.has_any_diff)>>)
  /\ Advance
  /\ UNCHANGED <<inputs, collected, movie_diff_cache, movie_calls>>

\* The last elif of the chain; when its condition is false as well the
\* iteration appends nothing.
EmitUnknown ==
  /\ pc = "bars" /\ branch \in {"unknown", "none"}
  /\ Emit(IF branch = "unknown" THEN <<unknown_entry(current_build)>> ELSE <<>>)
  /\ Advance
  /\ UNCHANGED <<inputs, collected, image_diff_cache, movie_diff_cache, calls, movie_calls>>

Next ==
  \/ Collect
  \/ EmitFirst
  \/ EmitSkipped
  \/ EmitMissing
  \/ EmitPartial
  \/ EmitDiff
  \/ EmitReadded
  \/ EmitUnknown

Spec == Init /\ [][Next]_vars

----------------------------------------------------------------------------
(* What the screenshots tree says, independently of the pass *)

MoviePresent(b, m) == \E f \in Frames : files[<<b, m, f>>] # "none"
KnownMovies == {m \in Movies : \E b \in dirs : MoviePresent(b, m)}
OlderWith(b, m) == {o \in dirs : o < b /\ MoviePresent(o, m)}
OldestBuild == Min(dirs)
DiskFrames(b, m) == {f \in Frames : files[<<b, m, f>>] # "none"}
ImmediatelyOlder(b) == Max({o \in dirs : o < b})

\* The places <<movie, position in its bar>> of the entries emitted so far
Emitted ==
  UNION {{<<m, k>> : k \in 1..Len(continuous_bars[m])} : m \in DOMAIN continuous_bars}

EntryAt(t) == continuous_bars[t[1]][t[2]]

MovieIndex(m) == CHOOSE k \in 1..Len(movies) : movies[k] = m

\* Iterations of the inner loop completed for movie m
Processed(m) ==
  IF pc = "done" \/ MovieIndex(m) < mi THEN Len(builds)
  ELSE IF MovieIndex(m) = mi THEN i - 1 ELSE 0

CallsFor(b, m) ==
  {k \in 1..Len(calls) : calls[k].src = b /\ calls[k].movie = m}

----------------------------------------------------------------------------
\* C1: for every known movie the continuity pass emits exactly one entry per
\* build, in the descending build order: after each iteration the bar holds
\* one entry for each build handled so far, the k-th entry carries
\* build = builds[k], and the finished bar has length len(builds).
C1_OneEntryPerBuild ==
  pc # "start" =>
    /\ {builds[k] : k \in 1..Len(builds)} = dirs
    /\ \A k \in 1..(Len(builds) - 1) : builds[k] > builds[k + 1]
    /\ DOMAIN continuous_bars = KnownMovies
    /\ \A m \in DOMAIN continuous_bars :
         /\ Len(continuous_bars[m]) = Processed(m)
         /\ \A k \in 1..Len(continuous_bars[m]) : continuous_bars[m][k].build = builds[k]

C1_Witness ==
  /\ pc = "done"
  /\ Len(builds) >= 3
  /\ \E m \in DOMAIN continuous_bars :
       /\ Len(continuous_bars[m]) = Len(builds)
       /\ \E b \in dirs : ~MoviePresent(b, m)

\* C2: in every continuity bar the entry typed 'first' is the entry of the
\* oldest build in which the movie has a frame, and of no other build; a
\* finished bar holds exactly one such entry.
C2_FirstIsOldestWithMovie ==
  /\ \A t \in Emitted :
       (EntryAt(t).type = "first") <=>
         (MoviePresent(EntryAt(t).build, t[1]) /\ OlderWith(EntryAt(t).build, t[1]) = {})
  /\ pc = "done" =>
       \A m \in DOMAIN continuous_bars :
         Cardinality({k \in 1..Len(continuous_bars[m]) :
                        continuous_bars[m][k].type = "first"}) = 1

C2_Witness ==
  /\ pc = "done"
  /\ \E t \in Emitted :
       /\ EntryAt(t).type = "first"
       /\ EntryAt(t).build # OldestBuild
       /\ \E o \in dirs : o > EntryAt(t).build /\ MoviePresent(o, t[1])

\* C3: whenever an emitted entry carries a baseline (reference_build or a
\* non-null compare_with), that baseline is a build of the target strictly
\* older than the entry's own build.
C3_BaselineStrictlyOlder ==
  \A t \in Emitted :
    /\ ("reference_build" \in EntryAt(t).keys /\ EntryAt(t).reference_build # None) =>
         (EntryAt(t).reference_build \in dirs /\ EntryAt(t).reference_build < EntryAt(t).build)
    /\ ("compare_with" \in EntryAt(t).keys /\ EntryAt(t).compare_with # None) =>
         (EntryAt(t).compare_with \in dirs /\ EntryAt(t).compare_with < EntryAt(t).build)

C3_Witness ==
  /\ pc = "done"
  /\ \E t \in Emitted : EntryAt(t).is_skipped /\ EntryAt(t).reference_build # None
  /\ \E t \in Emitted : EntryAt(t).type = "readded" /\ EntryAt(t).compare_with # None
  /\ \E t \in Emitted : EntryAt(t).type = "diff" /\ ~EntryAt(t).is_skipped /\ EntryAt(t).compare_with # None

\* The verdict of comparing frame f of build cur with frame f of build ref:
\* different when a .png is missing on either side, when the pixel diff
\* reports a difference or when it raises.
ComparesAsDifferent(cur, ref, m, f) ==
  \/ files[<<cur, m, f>>] \notin PngKinds
  \/ files[<<ref, m, f>>] \notin PngKinds
  \/ image_diff(files[<<cur, m, f>>], files[<<ref, m, f>>]) \in {"diff", "raise"}

AbsentEntryOk(m, e) ==
  IF OlderWith(e.build, m) = {}
  THEN /\ e.type = "missing"
       /\ "reference_build" \notin e.keys
       /\ "compare_with" \notin e.keys
  ELSE /\ e.type = "diff"
       /\ e.is_skipped
       /\ "has_diff" \in e.keys /\ e.has_diff = FALSE
       /\ e.reference_build = Max(OlderWith(e.build, m))
       /\ CallsFor(e.build, m) = {}

\* C4 as stated: for every build in which the movie is absent the entry is
\* 'missing' without reference build when no older build has the movie, and
\* otherwise a skipped 'diff' with has_diff = false referring to the nearest
\* older build with the movie, for which no frame is compared.
C4_Original ==
  \A t \in Emitted : ~MoviePresent(EntryAt(t).build, t[1]) => AbsentEntryOk(t[1], EntryAt(t))

\* C4 amended: the statement holds for every build but the oldest of the
\* target; in the oldest build an absent movie gives an 'unknown' entry
\* without reference build, and no frame is compared for it either.
C4_AbsentMovie ==
  \A t \in Emitted :
    ~MoviePresent(EntryAt(t).build, t[1]) =>
      IF EntryAt(t).build = OldestBuild
      THEN /\ EntryAt(t).type = "unknown"
           /\ EntryAt(t).keys = {"build", "type"}
           /\ CallsFor(EntryAt(t).build, t[1]) = {}
      ELSE /\ AbsentEntryOk(t[1], EntryAt(t))
           /\ CallsFor(EntryAt(t).build, t[1]) = {}

C4_Witness ==
  /\ pc = "done"
  /\ \E t \in Emitted : EntryAt(t).type = "missing"
  /\ \E t \in Emitted : EntryAt(t).type = "unknown"
  /\ \E t \in Emitted : EntryAt(t).is_skipped /\ EntryAt(t).reference_build # None

\* C5: when a movie is present in a build and in the immediately older build
\* and the build has strictly fewer frames than the older one, the entry is
\* a 'diff' flagged is_partial, compared with the immediately older build,
\* and has_diff is true exactly when some frame number common to both builds
\* compares as different; only common frames are ever compared.
C5_ShrinkingIsPartial ==
  \A t \in Emitted :
    LET m == t[1]
        e == EntryAt(t)
    IN (/\ e.build # OldestBuild
        /\ MoviePresent(e.build, m)
        /\ MoviePresent(ImmediatelyOlder(e.build), m)
        /\ Cardinality(DiskFrames(e.build, m))
             < Cardinality(DiskFrames(ImmediatelyOlder(e.build), m)))
       => LET older == ImmediatelyOlder(e.build)
              common == DiskFrames(e.build, m) \cap DiskFrames(older, m)
          IN /\ e.type = "diff"
             /\ "is_partial" \in e.keys /\ e.is_partial
             /\ e.compare_with = older
             /\ e.has_diff = (\E f \in common : ComparesAsDifferent(e.build, older, m, f))
             /\ \A k \in CallsFor(e.build, m) :
                  calls[k].cmp = older /\ calls[k].frame \in common

C5_Witness ==
  /\ pc = "done"
  /\ \E t \in Emitted :
       /\ EntryAt(t).is_partial
       /\ ~EntryAt(t).has_diff
       /\ CallsFor(EntryAt(t).build, t[1]) # {}

\* The older builds that have the movie and share a frame number with build b
OlderSharing(b, m) ==
  {o \in OlderWith(b, m) : DiskFrames(b, m) \cap DiskFrames(o, m) # {}}

Reappears(b, m) ==
  /\ b # OldestBuild
  /\ MoviePresent(b, m)
  /\ ~MoviePresent(ImmediatelyOlder(b), m)
  /\ OlderWith(b, m) # {}

\* C6 as stated: a movie present in a build, absent in the immediately older
\* build and present further back gives a 'readded' entry whose baseline is
\* the nearest older build with the movie; the compared frames are the
\* intersection of the two frame sets, and with an empty intersection the
\* entry is no_reference instead of referring to a build further back.
C6_Original ==
  \A t \in Emitted :
    Reappears(EntryAt(t).build, t[1]) =>
      LET near == Max(OlderWith(EntryAt(t).build, t[1]))
          common == DiskFrames(EntryAt(t).build, t[1]) \cap DiskFrames(near, t[1])
      IN /\ EntryAt(t).type = "readded"
         /\ IF common # {}
            THEN /\ EntryAt(t).compare_with = near
                 /\ EntryAt(t).common_frames = common
                 /\ ~EntryAt(t).no_reference
            ELSE /\ EntryAt(t).compare_with = None
                 /\ EntryAt(t).no_reference

\* C6 amended: the baseline of the 'readded' entry is the nearest older
\* build that has the movie and shares at least one frame number with the
\* current build; the compared frames are the intersection of the two frame
\* sets; the entry is no_reference only when no older build shares a frame
\* number with the current build.
C6_ReaddedBaseline ==
  \A t \in Emitted :
    Reappears(EntryAt(t).build, t[1]) =>
      /\ EntryAt(t).type = "readded"
      /\ IF OlderSharing(EntryAt(t).build, t[1]) # {}
         THEN LET ref == Max(OlderSharing(EntryAt(t).build, t[1]))
                  common == DiskFrames(EntryAt(t).build, t[1]) \cap DiskFrames(ref, t[1])
              IN /\ EntryAt(t).compare_with = ref
                 /\ EntryAt(t).common_frames = common
                 /\ ~EntryAt(t).no_reference
                 /\ \A k \in CallsFor(EntryAt(t).build, t[1]) :
                      calls[k].cmp = ref /\ calls[k].frame \in common
         ELSE /\ EntryAt(t).compare_with = None
              /\ EntryAt(t).no_reference
              /\ CallsFor(EntryAt(t).build, t[1]) = {}

C6_Witness ==
  /\ pc = "done"
  /\ \E t \in Emitted :
       /\ EntryAt(t).type = "readded"
       /\ EntryAt(t).compare_with # None
       /\ EntryAt(t).compare_with # Max(OlderWith(EntryAt(t).build, t[1]))

\* Two frame files match when both are readable images of the same mode with
\* the same pixels.
FrameMatches(src_kind, cmp_kind) ==
  /\ src_kind # "corrupt" /\ cmp_kind # "corrupt"
  /\ Mode(src_kind) = Mode(cmp_kind)
  /\ Pixels(src_kind) = Pixels(cmp_kind)

MovieDiffers(a, b, m) ==
  \/ DiskFrames(a, m) # DiskFrames(b, m)
  \/ \E f \in DiskFrames(a, m) : ~FrameMatches(files[<<a, m, f>>], files[<<b, m, f>>])

\* C7: movie_diff(A, B, target, movie) is true when the frame-number sets of
\* the two builds differ or some frame pair differs, and false only when the
\* sets are identical and every frame pair matches.
C7_Original ==
  \A key \in DOMAIN movie_diff_cache :
    movie_diff_cache[key] = MovieDiffers(key[1], key[2], key[4])

ComparisonFails(src_kind, cmp_kind) == image_diff(src_kind, cmp_kind) \in {"empty", "raise"}

\* C8: a failed frame comparison is never reported as 'no difference': when
\* the pixel-level comparison of a frame pair errors or a frame file is
\* absent, get_image_diff yields has_diff = true and movie_diff returns true.
C8_Original ==
  /\ \A key \in DOMAIN image_diff_cache :
       LET s == files[<<key[1], key[3], key[4]>>]
           c == files[<<key[2], key[3], key[4]>>]
       IN (s \notin PngKinds \/ c \notin PngKinds \/ ComparisonFails(s, c))
            => has_diff_of(image_diff_cache[key])
  /\ \A key \in DOMAIN movie_diff_cache :
       (\E k \in 1..Len(calls) :
          /\ calls[k].by = "movie_diff"
          /\ <<calls[k].src, calls[k].cmp, Target, calls[k].movie>> = key
          /\ ComparisonFails(files[<<calls[k].src, calls[k].movie, calls[k].frame>>],
                             files[<<calls[k].cmp, calls[k].movie, calls[k].frame>>]))
         => movie_diff_cache[key] = TRUE

CallKey(c) == <<c.src, c.cmp, c.movie, c.frame>>

Scenario ==
  /\ dirs = {1, 2, 3}
  /\ DiskFrames(3, "intro") = {1, 2}
  /\ DiskFrames(2, "intro") = {}
  /\ DiskFrames(1, "intro") = {1, 2}

\* C10 as stated: in the scenario the bar is: build 3 'first'; build 2 a
\* skipped 'diff' with reference build 1; build 1 'unknown'.
C10_Original ==
  (pc = "done" /\ Scenario) =>
    LET bar == continuous_bars["intro"]
    IN /\ Len(bar) = 3
       /\ bar[1].build = 3 /\ bar[1].type = "first"
       /\ bar[2].build = 2 /\ bar[2].type = "diff" /\ bar[2].is_skipped
       /\ bar[2].reference_build = 1
       /\ bar[3].build = 1 /\ bar[3].type = "unknown"

\* C10 amended: in the scenario the bar is: build 3 'readded', compared with
\* build 1 over the frames {1, 2}; build 2 a skipped 'diff' with reference
\* build 1; build 1 'first'.
C10_Scenario ==
  (pc = "done" /\ Scenario) =>
    LET bar == continuous_bars["intro"]
    IN /\ Len(bar) = 3
       /\ bar[1].build = 3 /\ bar[1].type = "readded"
       /\ bar[1].compare_with = 1 /\ bar[1].common_frames = {1, 2}
       /\ ~bar[1].no_reference
       /\ bar[2].build = 2 /\ bar[2].type = "diff" /\ bar[2].is_skipped
       /\ bar[2].reference_build = 1 /\ bar[2].has_diff = FALSE
       /\ bar[3].build = 1 /\ bar[3].type = "first"

C10_Witness == pc = "done" /\ Scenario /\ Len(continuous_bars["intro"]) = 3

\* C7 on the trees without an unreadable file
C7_ReadableOnly ==
  (\A sl \in Slots : files[sl] # "corrupt") => C7_Original

\* The frame set of the baseline build b of movie m, empty without a baseline
BaselineFrames(b, m) == IF b = None THEN {} ELSE DiskFrames(b, m)

\* C11: for every build that holds the movie, the compared-frame set the
\* reference resolver records, and the common_frames of the entry that
\* exposes it, is a subset of the intersection of the frame sets of the
\* current build and of the baseline build, and it is empty exactly when no
\* baseline build was resolved.
C11_Original ==
  /\ \A m \in DOMAIN movie_reference_builds :
       \A b \in DOMAIN movie_reference_builds[m] :
         MoviePresent(b, m) =>
           LET rd == movie_reference_builds[m][b]
           IN /\ rd.frames \subseteq (DiskFrames(b, m) \cap BaselineFrames(rd.build, m))
              /\ (rd.frames = {}) <=> (rd.build = None)
  /\ \A t \in Emitted :
       "common_frames" \in EntryAt(t).keys =>
         /\ EntryAt(t).common_frames \subseteq
              (DiskFrames(EntryAt(t).build, t[1])
                 \cap BaselineFrames(EntryAt(t).compare_with, t[1]))
         /\ (EntryAt(t).common_frames = {}) <=> (EntryAt(t).compare_with = None)

\* C11 for the resolved baselines only: a resolved baseline comes with the
\* intersection of the two frame sets, which is not empty, and a 'readded'
\* entry exposes what the resolver recorded.
C11_ResolvedOnly ==
  /\ \A m \in DOMAIN movie_reference_builds :
       \A b \in DOMAIN movie_reference_builds[m] :
         LET rd == movie_reference_builds[m][b]
         IN (MoviePresent(b, m) /\ rd.build # None) =>
              /\ rd.frames = DiskFrames(b, m) \cap DiskFrames(rd.build, m)
              /\ rd.frames # {}
  /\ \A t \in Emitted :
       "common_frames" \in EntryAt(t).keys =>
         LET rd == movie_reference_builds[t[1]][EntryAt(t).build]
         IN /\ EntryAt(t).common_frames = rd.frames
            /\ EntryAt(t).compare_with = rd.build

\* A 'readded' entry without a baseline that exposes the frames of its build
C11_NoReferenceFrames ==
  \E t \in Emitted :
    /\ EntryAt(t).type = "readded"
    /\ EntryAt(t).no_reference
    /\ EntryAt(t).common_frames = DiskFrames(EntryAt(t).build, t[1])
    /\ EntryAt(t).common_frames # {}

\* What the pixel-diff call c came to
CallOutcome(c) ==
  image_diff(files[<<c.src, c.movie, c.frame>>], files[<<c.cmp, c.movie, c.frame>>])

SameComparison(c, d) == c.src = d.src /\ c.cmp = d.cmp /\ c.movie = d.movie

\* The frame numbers of the comparison of call c for which no call was made
NotCompared(c) ==
  {f \in DiskFrames(c.src, c.movie) \cap DiskFrames(c.cmp, c.movie) :
     \A k \in 1..Len(calls) : ~(SameComparison(calls[k], c) /\ calls[k].frame = f)}

\* C12: in movie_diff and in the partial and 'readded' frame loops of the
\* pass, a pixel-diff call that reports a difference or raises is the last
\* one of its (current build, baseline build, movie) comparison; and when
\* the frame-number sets of the two builds differ, movie_diff issues no
\* pixel-diff call at all.
C12_ShortCircuit ==
  /\ \A j \in 1..Len(calls) : \A k \in 1..Len(calls) :
       (j < k /\ SameComparison(calls[j], calls[k]))
         => CallOutcome(calls[j]) \notin {"diff", "raise"}
  /\ \A key \in DOMAIN movie_diff_cache :
       DiskFrames(key[1], key[4]) # DiskFrames(key[2], key[4])
         => \A k \in 1..Len(calls) :
              ~(calls[k].src = key[1] /\ calls[k].cmp = key[2] /\ calls[k].movie = key[4])

\* A comparison stopped by a call that reported a difference or raised
\* while a common frame was still to be compared.
StoppedBy(k) ==
  /\ CallOutcome(calls[k]) \in {"diff", "raise"}
  /\ NotCompared(calls[k]) # {}

C12_Witness == pc = "done" /\ \E k \in 1..Len(calls) : StoppedBy(k)

\* movie_diff was asked about two builds whose frame-number sets differ
C12_SetsDiffer ==
  \E key \in DOMAIN movie_diff_cache :
    DiskFrames(key[1], key[4]) # DiskFrames(key[2], key[4])

\* The three loops, each stopped before its last frame
C12_MovieDiffStops ==
  \E k \in 1..Len(calls) : calls[k].by = "movie_diff" /\ StoppedBy(k)

C12_PartialStops ==
  \E k \in 1..Len(calls) :
    /\ StoppedBy(k)
    /\ \E t \in Emitted : EntryAt(t).build = calls[k].src /\ EntryAt(t).is_partial

C12_ReaddedStops ==
  \E k \in 1..Len(calls) :
    /\ StoppedBy(k)
    /\ \E t \in Emitted : EntryAt(t).build = calls[k].src /\ EntryAt(t).type = "readded"

\* Build b holds more frames of movie m than the immediately older build,
\* which holds the movie as well.
Grows(b, m) ==
  /\ b # OldestBuild
  /\ MoviePresent(b, m)
  /\ MoviePresent(ImmediatelyOlder(b), m)
  /\ Cardinality(DiskFrames(b, m)) > Cardinality(DiskFrames(ImmediatelyOlder(b), m))

\* C13: when a build holds strictly more frames of a movie than the
\* immediately older build, which holds the movie too, the entry is of type
\* 'diff' without is_partial, compared with the immediately older build, its
\* has_diff is true whatever the images are, and no pixel-diff call is made
\* for it.
C13_GrowingIsDiff ==
  \A t \in Emitted :
    Grows(EntryAt(t).build, t[1]) =>
      /\ EntryAt(t).type = "diff"
      /\ "is_partial" \notin EntryAt(t).keys
      /\ ~EntryAt(t).is_partial
      /\ EntryAt(t).compare_with = ImmediatelyOlder(EntryAt(t).build)
      /\ EntryAt(t).has_diff
      /\ CallsFor(EntryAt(t).build, t[1]) = {}

\* A build that grows while every frame it shares with the older build is
\* pixel-identical
C13_Witness ==
  /\ pc = "done"
  /\ \E t \in Emitted :
       LET b == EntryAt(t).build
       IN /\ Grows(b, t[1])
          /\ DiskFrames(b, t[1]) \cap DiskFrames(ImmediatelyOlder(b), t[1]) # {}
          /\ \A f \in DiskFrames(b, t[1]) \cap DiskFrames(ImmediatelyOlder(b), t[1]) :
               FrameMatches(files[<<b, t[1], f>>], files[<<ImmediatelyOlder(b), t[1], f>>])
          /\ EntryAt(t).has_diff

====
